---- MODULE Spec2Model ----
(***************************************************************************)
(* Model of the quiz game orchestrator (internal/services/game_service.go) *)
(* over the lobby data model (internal/models/game.go), the Hub directory  *)
(* (internal/hub/hub.go) and the repository's upsert/delete interface.     *)
(*                                                                         *)
(* GameService holds no lock: every request handler and every round timer  *)
(* is a goroutine that reads and writes the shared *Lobby directly.  Each  *)
(* handler is therefore split at the points where another goroutine can    *)
(* run: after its checks, after its mutation, after the repository write   *)
(* and after the broadcast.  pc gives every goroutine's position.          *)
(*                                                                         *)
(* Time is kept relative to the present: QuestionEnd holds the seconds     *)
(* left until the deadline (0 = the deadline is reached), sleep[t] the     *)
(* seconds a sleeping timer goroutine still has to wait.  Tick lets time   *)
(* pass.  StartedAt only records nil / non-nil; FinishedAt holds the       *)
(* seconds passed since the finish time, as far as the sweep tells them    *)
(* apart.                                                                  *)
(***************************************************************************)
EXTENDS Integers, Sequences, FiniteSets, TLC

\* ---- program constants --------------------------------------------------
Capacity == 8
QuestionDuration == 15
InterRoundPause == 3
BaseScore == 100
MaxTimeBonus == 50
AccuracyBonus == 25
MsPerSecond == 1000
SweepPeriod == 300
RetentionWindow == 600

\* ---- bounds of the model ------------------------------------------------
MaxCalls == 4
MaxLobbyCalls == 9
MaxTeardownCalls == 5
MaxRoundsLimit == 2
TickStep == 15
ScoreSpan == 52
MaxAnswerCalls == 2
MaxSweepCalls == 3
MaxBoardPlayers == 4

MinRounds == 0 - 1
Callers == {"c1", "c2"}
Timers == {"t1", "t2"}
Threads == Callers \cup Timers
LobbyIds == {"L1"}
RequestIds == {"L1", "L0"}
Usernames == {"alice"}
Answers == {1, 2}
ResponseTimes == {0, 50000}
BoardScores == {0, 125, 175}
\* response times (ms) given to the scoring: every half second from -4 s to
\* ScoreSpan s, the values next to the steps of the bonus, and very large ones
ScoreTimes == {h * 500 : h \in (0 - 8)..(2 * ScoreSpan)}
              \cup {0 - 2000000000, 0 - 1001, 0 - 999, 0 - 1, 1, 999, 1001, 49999, 50001, 2000000000}

\* ---- values -------------------------------------------------------------
Nil == <<>>
Ptr(v) == <<v>>
Deref(p) == p[1]

Waiting == "waiting"
InProgress == "in_progress"
Finished == "finished"

ErrLobbyNotFound == "lobby not found"
ErrLobbyFull == "lobby is full"
ErrGameInProgress == "game is already in progress"
ErrPlayerNotFound == "player not found"
ErrCannotStartGame == "cannot start game"
ErrQuestionNotActive == "no active question"
Ok == "ok"
Panic == "panic"
NoResult == "none"

Questions == { [ID |-> "1", Correct |-> 2], [ID |-> "2", Correct |-> 1] }

VARIABLES
    hub,        \* Hub.lobbies: the lobby ids that map to a LobbyHub
    lobbies,    \* the Lobby objects on the heap, by id
    repo,       \* the repository: lobby id -> last saved snapshot
    events,     \* per lobby id: the last event handed to LobbyHub.Broadcast and,
                \* per event type, how many were handed over so far
    pc,         \* position of every goroutine
    arg,        \* arguments / locals of the call a goroutine is executing
    result,     \* what the last call of a caller returned
    sleep,      \* seconds a timer goroutine still sleeps
    nextId,     \* number of player ids handed out (uuid.New)
    calls,      \* number of client calls made so far
    crashed     \* an unrecovered panic ended the process

\* One LobbyHub (hub.go) and the connections of its clients
VARIABLES
    clients,    \* lh.clients: connection id -> the connection registered under it
    Send,       \* per connection: the payloads buffered in its Send channel
    closed,     \* per connection: its Send channel was closed
    delivered,  \* per connection: every payload ever placed in its Send channel
    run,        \* the position and locals of the goroutine LobbyHub.run
    hpc,        \* position of every goroutine that calls Unregister or Broadcast
    harg,       \* the connection or payload such a goroutine passes
    issued,     \* number of Broadcast calls issued so far (the n-th payload is n)
    before,     \* per payload: the payloads whose Broadcast had returned when
                \* its own Broadcast was issued
    regAt,      \* per connection: where run was when its last Register returned
    hcalls      \* number of Register, Unregister and Broadcast calls so far

svcVars == <<hub, lobbies, repo, events, pc, arg, result, sleep, nextId, calls, crashed>>

hubVars == <<clients, Send, closed, delivered, run, hpc, harg, issued, before, regAt, hcalls>>

\* the repository is unavailable: SaveLobby returns an error
VARIABLE outage

vars == <<svcVars, hubVars, outage>>

TimerOf(c) == IF c = "c1" THEN "t1" ELSE "t2"

NoArg == [lobby |-> "", username |-> "", player |-> 0, answer |-> 0, rt |-> 0,
          score |-> 0, streak |-> 0, question |-> Nil]

\* ---- internal/models/game.go --------------------------------------------
NewLobbyNoName(id, name, maxRounds) ==
    [ID |-> id, Name |-> "", Players |-> <<>>, State |-> Waiting, CurrentQ |-> Nil,
     Round |-> 0, MaxRounds |-> maxRounds, StartedAt |-> Nil,
     QuestionEnd |-> Nil, FinishedAt |-> Nil]

NewLobby(id, name, maxRounds) ==
    [ID |-> id, Name |-> name, Players |-> <<>>, State |-> Waiting, CurrentQ |-> Nil,
     Round |-> 0, MaxRounds |-> maxRounds, StartedAt |-> Nil,
     QuestionEnd |-> Nil, FinishedAt |-> Nil]

NewPlayer(id, username) ==
    [ID |-> id, Username |-> username, Score |-> 0, Streak |-> 0, IsReady |-> FALSE]

AddPlayer(l, id, username) ==
    [l EXCEPT !.Players = Append(l.Players, NewPlayer(id, username))]

HasPlayer(l, playerID) == \E i \in 1..Len(l.Players) : l.Players[i].ID = playerID

\* a RemovePlayer that drops the first player of the list, whoever was named
RemovePlayerFirst(l, playerID) ==
    [l EXCEPT !.Players = Tail(l.Players)]

RemovePlayer(l, playerID) ==
    [l EXCEPT !.Players = SelectSeq(l.Players, LAMBDA p : p.ID # playerID)]

CanStart(l) == Len(l.Players) >= 2 /\ l.State = Waiting

\* a StartGame that forgets to leave the Waiting state
LobbyStartGameKeepsState(l) ==
    [l EXCEPT !.Round = 1, !.StartedAt = Ptr(0)]

LobbyStartGame(l) ==
    [l EXCEPT !.State = InProgress, !.Round = 1, !.StartedAt = Ptr(0)]

NextRound(l) ==
    LET r == l.Round + 1
    IN [l EXCEPT !.Round = r,
                 !.State = IF r > l.MaxRounds THEN Finished ELSE l.State]

SetQuestion(l, question, duration) ==
    [l EXCEPT !.CurrentQ = Ptr(question), !.QuestionEnd = Ptr(duration)]

\* an IsQuestionActive that does not look at the clock
IsQuestionActiveNoDeadline(l) ==
    l.CurrentQ # Nil /\ l.QuestionEnd # Nil

IsQuestionActive(l) ==
    l.CurrentQ # Nil /\ l.QuestionEnd # Nil /\ Deref(l.QuestionEnd) > 0

\* ---- internal/services/game_service.go: pure helpers --------------------
TruncDiv(a, b) == IF a >= 0 THEN a \div b ELSE 0 - ((0 - a) \div b)

MaxOf(a, b) == IF a >= b THEN a ELSE b

\* a score whose time bonus is not floored at 0
calculateScoreNoFloor(question, answer, responseTime) ==
    IF answer # question.Correct
    THEN 0
    ELSE BaseScore
         + (MaxTimeBonus - TruncDiv(responseTime, MsPerSecond))
         + AccuracyBonus

calculateScore(question, answer, responseTime) ==
    IF answer # question.Correct
    THEN 0
    ELSE BaseScore
         + MaxOf(0, MaxTimeBonus - TruncDiv(responseTime, MsPerSecond))
         + AccuracyBonus

\* one inner loop of the bubble sort: j runs from 1 to n, swapping neighbours
\* when the left one has the strictly smaller score
RECURSIVE BubblePass(_, _, _)
BubblePass(s, j, n) ==
    IF j > n THEN s
    ELSE IF s[j].Score < s[j + 1].Score
         THEN BubblePass([s EXCEPT ![j] = s[j + 1], ![j + 1] = s[j]], j + 1, n)
         ELSE BubblePass(s, j + 1, n)

RECURSIVE BubbleSort(_, _)
BubbleSort(s, i) ==
    IF i >= Len(s) - 1 THEN s
    ELSE BubbleSort(BubblePass(s, 1, Len(s) - i - 1), i + 1)

\* a bubble sort that also swaps neighbours with equal scores
RECURSIVE BubblePassSwapEqual(_, _, _)
BubblePassSwapEqual(s, j, n) ==
    IF j > n THEN s
    ELSE IF s[j].Score <= s[j + 1].Score
         THEN BubblePassSwapEqual([s EXCEPT ![j] = s[j + 1], ![j + 1] = s[j]], j + 1, n)
         ELSE BubblePassSwapEqual(s, j + 1, n)

RECURSIVE BubbleSortSwapEqual(_, _)
BubbleSortSwapEqual(s, i) ==
    IF i >= Len(s) - 1 THEN s
    ELSE BubbleSortSwapEqual(BubblePassSwapEqual(s, 1, Len(s) - i - 1), i + 1)

calculateLeaderboardUnstable(l) == BubbleSortSwapEqual(l.Players, 0)

calculateLeaderboard(l) == BubbleSort(l.Players, 0)

EventTypes == {"player_joined", "player_left", "game_started", "new_question",
               "answer_received", "question_results", "game_ended"}

Event(type, data) == [Type |-> type, Data |-> data]

NoEvents == [last |-> Nil, count |-> [t \in EventTypes |-> 0]]

\* BroadcastLobbyUpdate: the event is handed to the lobby hub's loop
BroadcastLobbyUpdate(id, type, data) ==
    events' = [events EXCEPT ![id] =
                 [last |-> Ptr(Event(type, data)),
                  count |-> [@.count EXCEPT ![type] = @ + 1]]]

\* repository.SaveLobby: upsert of the lobby as it is at the time of the call
\* (the lobbies and players tables have no column for the question deadline)
Snapshot(l) ==
    [ID |-> l.ID, Name |-> l.Name, State |-> l.State, Round |-> l.Round, MaxRounds |-> l.MaxRounds,
     CurrentQ |-> l.CurrentQ, StartedAt |-> l.StartedAt, FinishedAt |-> l.FinishedAt,
     Players |-> l.Players]

SaveLobby(id) ==
    repo' = IF outage
            THEN repo
            ELSE [x \in DOMAIN repo \cup {id} |->
                    IF x = id THEN Snapshot(lobbies[id]) ELSE repo[x]]

\* repository.DeleteLobby
DeleteLobby(id) == repo' = [x \in DOMAIN repo \ {id} |-> repo[x]]

Return(th, r) ==
    /\ pc' = [pc EXCEPT ![th] = "idle"]
    /\ arg' = [arg EXCEPT ![th] = NoArg]
    /\ result' = [result EXCEPT ![th] = r]

Goto(th, label) == pc' = [pc EXCEPT ![th] = label]

\* ---- hub.go: connections and the LobbyHub as CreateLobbyHub builds it --------
\* the websocket connections; every one owns one Send channel
Conns == {"a", "b", "c"}

\* generateClientID formats the clock with one-second resolution (the layout of
\* the fraction is the literal "000000000"): connections accepted within the
\* same second carry the same id
ConnId(k) == IF k = "c" THEN "y" ELSE "x"

ConnIds == {ConnId(k) : k \in Conns}

\* the goroutines that call Unregister or Broadcast
HubCallers == {"h1", "h2"}

NoHubArg == [conn |-> "", msg |-> 0]

RunIdle == [pc |-> "select", msg |-> 0, conn |-> "", remove |-> {}, full |-> {}]

\* &LobbyHub{clients: make(map...), ...} followed by go lobbyHub.run()
NewLobbyHub ==
    /\ clients = <<>>
    /\ Send = [k \in Conns |-> <<>>]
    /\ closed = [k \in Conns |-> FALSE]
    /\ delivered = [k \in Conns |-> <<>>]
    /\ run = RunIdle
    /\ hpc = [h \in HubCallers |-> "idle"]
    /\ harg = [h \in HubCallers |-> NoHubArg]
    /\ issued = 0
    /\ before = <<>>
    /\ regAt = [k \in Conns |-> ""]
    /\ hcalls = 0

Init ==
    /\ NewLobbyHub
    /\ hub = {}
    /\ lobbies = <<>>
    /\ repo = <<>>
    /\ events = <<>>
    /\ pc = [th \in Threads |-> IF th \in Callers THEN "idle" ELSE "unused"]
    /\ arg = [th \in Threads |-> NoArg]
    /\ result = [c \in Callers |-> NoResult]
    /\ sleep = [t \in Timers |-> 0]
    /\ nextId = 0
    /\ calls = 0
    /\ crashed = FALSE
    /\ outage = FALSE

\* ---- GameService.CreateLobby --------------------------------------------
CreateLobby(id, name, maxRounds) ==
    /\ id \notin DOMAIN lobbies
    /\ lobbies' = [x \in DOMAIN lobbies \cup {id} |->
                     IF x = id THEN NewLobby(id, name, maxRounds) ELSE lobbies[x]]
    /\ hub' = hub \cup {id}
    /\ events' = [x \in DOMAIN events \cup {id} |-> IF x = id THEN NoEvents ELSE events[x]]
    /\ repo' = IF outage
               THEN repo
               ELSE [x \in DOMAIN repo \cup {id} |->
                       IF x = id THEN Snapshot(NewLobby(id, name, maxRounds)) ELSE repo[x]]
    /\ UNCHANGED <<pc, arg, result, sleep, nextId, calls, crashed>>

\* ---- GameService.JoinLobby ----------------------------------------------
\* GetLobbyHub and the two checks
JoinLobbyCheck(c, id, username, budget) ==
    /\ pc[c] = "idle"
    /\ calls < budget
    /\ calls' = calls + 1
    /\ IF id \notin hub THEN Return(c, ErrLobbyNotFound)
       ELSE IF Len(lobbies[id].Players) >= Capacity THEN Return(c, ErrLobbyFull)
       ELSE IF lobbies[id].State # Waiting THEN Return(c, ErrGameInProgress)
       ELSE /\ Goto(c, "join_add")
            /\ arg' = [arg EXCEPT ![c] = [NoArg EXCEPT !.lobby = id, !.username = username]]
            /\ result' = [result EXCEPT ![c] = NoResult]
    /\ UNCHANGED <<hub, lobbies, repo, events, sleep, nextId, crashed>>

\* lobby.AddPlayer(username)
JoinLobbyAdd(c) ==
    /\ pc[c] = "join_add"
    /\ lobbies' = [lobbies EXCEPT ![arg[c].lobby] = AddPlayer(@, nextId + 1, arg[c].username)]
    /\ nextId' = nextId + 1
    /\ arg' = [arg EXCEPT ![c].player = nextId + 1]
    /\ Goto(c, "join_save")
    /\ UNCHANGED <<hub, repo, events, result, sleep, calls, crashed>>

JoinLobbySave(c) ==
    /\ pc[c] = "join_save"
    /\ SaveLobby(arg[c].lobby)
    /\ Goto(c, "join_bcast")
    /\ UNCHANGED <<hub, lobbies, events, arg, result, sleep, nextId, calls, crashed>>

JoinLobbyBroadcast(c) ==
    /\ pc[c] = "join_bcast"
    /\ BroadcastLobbyUpdate(arg[c].lobby, "player_joined", <<arg[c].player>>)
    /\ Return(c, Ok)
    /\ UNCHANGED <<hub, lobbies, repo, sleep, nextId, calls, crashed>>

JoinLobby(c, budget) ==
    \/ \E id \in RequestIds, u \in Usernames : JoinLobbyCheck(c, id, u, budget)
    \/ JoinLobbyAdd(c)
    \/ JoinLobbySave(c)
    \/ JoinLobbyBroadcast(c)

\* ---- GameService.LeaveLobby ---------------------------------------------
\* GetLobbyHub and lobby.RemovePlayer
LeaveLobbyRemove(c, id, playerID, budget) ==
    /\ pc[c] = "idle"
    /\ calls < budget
    /\ calls' = calls + 1
    /\ IF id \notin hub
       THEN Return(c, ErrLobbyNotFound) /\ UNCHANGED lobbies
       ELSE IF ~HasPlayer(lobbies[id], playerID)
       THEN Return(c, ErrPlayerNotFound) /\ UNCHANGED lobbies
       ELSE /\ lobbies' = [lobbies EXCEPT ![id] = RemovePlayer(@, playerID)]
            /\ Goto(c, "leave_save")
            /\ arg' = [arg EXCEPT ![c] = [NoArg EXCEPT !.lobby = id, !.player = playerID]]
            /\ result' = [result EXCEPT ![c] = NoResult]
    /\ UNCHANGED <<hub, repo, events, sleep, nextId, crashed>>

LeaveLobbySave(c) ==
    /\ pc[c] = "leave_save"
    /\ SaveLobby(arg[c].lobby)
    /\ Goto(c, "leave_bcast")
    /\ UNCHANGED <<hub, lobbies, events, arg, result, sleep, nextId, calls, crashed>>

LeaveLobbyBroadcast(c) ==
    /\ pc[c] = "leave_bcast"
    /\ BroadcastLobbyUpdate(arg[c].lobby, "player_left", <<arg[c].player>>)
    /\ Goto(c, "leave_tail")
    /\ UNCHANGED <<hub, lobbies, repo, arg, result, sleep, nextId, calls, crashed>>

\* if len(lobby.Players) == 0 { RemoveLobbyHub ... } else return nil
LeaveLobbyTail(c) ==
    /\ pc[c] = "leave_tail"
    /\ IF Len(lobbies[arg[c].lobby].Players) = 0
       THEN /\ hub' = hub \ {arg[c].lobby}
            /\ Goto(c, "leave_delete")
            /\ UNCHANGED <<arg, result>>
       ELSE /\ Return(c, Ok)
            /\ UNCHANGED hub
    /\ UNCHANGED <<lobbies, repo, events, sleep, nextId, calls, crashed>>

LeaveLobbyDelete(c) ==
    /\ pc[c] = "leave_delete"
    /\ DeleteLobby(arg[c].lobby)
    /\ Return(c, Ok)
    /\ UNCHANGED <<hub, lobbies, events, sleep, nextId, calls, crashed>>

LeaveLobby(c, budget) ==
    \/ \E id \in RequestIds, pid \in 1..nextId : LeaveLobbyRemove(c, id, pid, budget)
    \/ LeaveLobbySave(c)
    \/ LeaveLobbyBroadcast(c)
    \/ LeaveLobbyTail(c)
    \/ LeaveLobbyDelete(c)

\* ---- panics --------------------------------------------------------------
\* A nil dereference in a request served through gin's Recovery middleware
\* ends that request only; in a WebSocket reader or a timer goroutine nothing
\* recovers it and the process ends.
PanicIn(th) ==
    \/ /\ th \in Callers
       /\ Return(th, Panic)
       /\ UNCHANGED crashed
    \/ /\ crashed' = TRUE
       /\ UNCHANGED <<pc, arg, result>>

\* ---- GameService.endGame ------------------------------------------------
Finish(th) ==
    IF th \in Callers
    THEN Return(th, Ok)
    ELSE Goto(th, "done") /\ UNCHANGED <<arg, result>>

EndGameSet(th) ==
    /\ pc[th] = "eg_set"
    /\ lobbies' = [lobbies EXCEPT ![arg[th].lobby] =
                     [@ EXCEPT !.State = Finished, !.FinishedAt = Ptr(0)]]
    /\ Goto(th, "eg_bcast")
    /\ UNCHANGED <<hub, repo, events, arg, result, sleep, nextId, calls, crashed>>

\* an endGame that names the last leaderboard entry as the winner
EndGameBroadcastLastWins(th) ==
    /\ pc[th] = "eg_bcast"
    /\ LET leaderboard == calculateLeaderboard(lobbies[arg[th].lobby])
           winner == IF Len(leaderboard) > 0 THEN Ptr(leaderboard[Len(leaderboard)]) ELSE Nil
       IN BroadcastLobbyUpdate(arg[th].lobby, "game_ended", <<leaderboard, winner>>)
    /\ Goto(th, "eg_save")
    /\ UNCHANGED <<hub, lobbies, repo, arg, result, sleep, nextId, calls, crashed>>

EndGameBroadcast(th) ==
    /\ pc[th] = "eg_bcast"
    /\ LET leaderboard == calculateLeaderboard(lobbies[arg[th].lobby])
           winner == IF Len(leaderboard) > 0 THEN Ptr(leaderboard[1]) ELSE Nil
       IN BroadcastLobbyUpdate(arg[th].lobby, "game_ended", <<leaderboard, winner>>)
    /\ Goto(th, "eg_save")
    /\ UNCHANGED <<hub, lobbies, repo, arg, result, sleep, nextId, calls, crashed>>

EndGameSave(th) ==
    /\ pc[th] = "eg_save"
    /\ SaveLobby(arg[th].lobby)
    /\ Finish(th)
    /\ UNCHANGED <<hub, lobbies, events, sleep, nextId, calls, crashed>>

endGame(th) == EndGameSet(th) \/ EndGameBroadcast(th) \/ EndGameSave(th)

\* ---- GameService.startNextQuestion --------------------------------------
\* entered from StartGame, or by the timer goroutine once its pause is over
StartNextQuestionSet(th) ==
    /\ \/ pc[th] = "snq_check"
       \/ pc[th] = "sleepP" /\ sleep[th] = 0
    /\ IF lobbies[arg[th].lobby].Round > lobbies[arg[th].lobby].MaxRounds
       THEN /\ Goto(th, "eg_set")
            /\ UNCHANGED <<lobbies, arg>>
       ELSE \E q \in Questions :
            /\ lobbies' = [lobbies EXCEPT ![arg[th].lobby] = SetQuestion(@, q, QuestionDuration)]
            /\ arg' = [arg EXCEPT ![th].question = Ptr(q)]
            /\ Goto(th, "snq_save")
    /\ UNCHANGED <<hub, repo, events, result, sleep, nextId, calls, crashed>>

StartNextQuestionSave(th) ==
    /\ pc[th] = "snq_save"
    /\ SaveLobby(arg[th].lobby)
    /\ Goto(th, "snq_bcast")
    /\ UNCHANGED <<hub, lobbies, events, arg, result, sleep, nextId, calls, crashed>>

\* lobby.QuestionEnd.UnixMilli(), the new_question broadcast and the go func()
\* that sleeps for the question's duration
StartNextQuestionBroadcast(th) ==
    /\ pc[th] = "snq_bcast"
    /\ lobbies[arg[th].lobby].QuestionEnd # Nil
    /\ BroadcastLobbyUpdate(arg[th].lobby, "new_question",
                            <<Deref(arg[th].question), lobbies[arg[th].lobby].Round>>)
    /\ LET t == IF th \in Callers THEN TimerOf(th) ELSE th
       IN /\ sleep' = [sleep EXCEPT ![t] = QuestionDuration]
          /\ pc' = [pc EXCEPT ![th] = "idle", ![t] = "sleepQ"]
          /\ arg' = [arg EXCEPT ![th] = NoArg, ![t] = [NoArg EXCEPT !.lobby = arg[th].lobby]]
          /\ result' = IF th \in Callers THEN [result EXCEPT ![th] = Ok] ELSE result
    /\ UNCHANGED <<hub, lobbies, repo, nextId, calls, crashed>>

StartNextQuestionPanic(th) ==
    /\ pc[th] = "snq_bcast"
    /\ lobbies[arg[th].lobby].QuestionEnd = Nil
    /\ PanicIn(th)
    /\ UNCHANGED <<hub, lobbies, repo, events, sleep, nextId, calls>>

startNextQuestion(th) ==
    \/ StartNextQuestionSet(th)
    \/ StartNextQuestionSave(th)
    \/ StartNextQuestionBroadcast(th)
    \/ StartNextQuestionPanic(th)

\* ---- GameService.endQuestion (the timer goroutine after its sleep) ------
EndQuestionBroadcast(t) ==
    /\ pc[t] = "sleepQ"
    /\ sleep[t] = 0
    /\ lobbies[arg[t].lobby].CurrentQ # Nil
    /\ LET l == lobbies[arg[t].lobby]
       IN BroadcastLobbyUpdate(arg[t].lobby, "question_results",
                               <<Deref(l.CurrentQ).Correct, calculateLeaderboard(l), l.Round>>)
    /\ Goto(t, "eq_clear")
    /\ UNCHANGED <<hub, lobbies, repo, arg, result, sleep, nextId, calls, crashed>>

\* lobby.CurrentQ.Correct with CurrentQ == nil
EndQuestionPanic(t) ==
    /\ pc[t] = "sleepQ"
    /\ sleep[t] = 0
    /\ lobbies[arg[t].lobby].CurrentQ = Nil
    /\ PanicIn(t)
    /\ UNCHANGED <<hub, lobbies, repo, events, sleep, nextId, calls>>

EndQuestionClear(t) ==
    /\ pc[t] = "eq_clear"
    /\ lobbies' = [lobbies EXCEPT ![arg[t].lobby] =
                     NextRound([@ EXCEPT !.CurrentQ = Nil, !.QuestionEnd = Nil])]
    /\ Goto(t, "eq_save")
    /\ UNCHANGED <<hub, repo, events, arg, result, sleep, nextId, calls, crashed>>

\* SaveLobby, then time.Sleep(3 * time.Second)
EndQuestionSave(t) ==
    /\ pc[t] = "eq_save"
    /\ SaveLobby(arg[t].lobby)
    /\ sleep' = [sleep EXCEPT ![t] = InterRoundPause]
    /\ Goto(t, "sleepP")
    /\ UNCHANGED <<hub, lobbies, events, arg, result, nextId, calls, crashed>>

endQuestion(t) ==
    \/ EndQuestionBroadcast(t)
    \/ EndQuestionPanic(t)
    \/ EndQuestionClear(t)
    \/ EndQuestionSave(t)

\* ---- GameService.StartGame ----------------------------------------------
\* a StartGame that applies lobby.StartGame() before it reports the refusal
StartGameCheckSetsFirst(c, id, budget) ==
    /\ pc[c] = "idle"
    /\ calls < budget
    /\ calls' = calls + 1
    /\ IF id \notin hub
       THEN Return(c, ErrLobbyNotFound) /\ UNCHANGED lobbies
       ELSE IF ~CanStart(lobbies[id])
       THEN /\ Return(c, ErrCannotStartGame)
            /\ lobbies' = [lobbies EXCEPT ![id] = LobbyStartGame(@)]
       ELSE /\ Goto(c, "start_set")
            /\ arg' = [arg EXCEPT ![c] = [NoArg EXCEPT !.lobby = id]]
            /\ result' = [result EXCEPT ![c] = NoResult]
            /\ UNCHANGED lobbies
    /\ UNCHANGED <<hub, repo, events, sleep, nextId, crashed>>

StartGameCheck(c, id, budget) ==
    /\ pc[c] = "idle"
    /\ calls < budget
    /\ calls' = calls + 1
    /\ IF id \notin hub THEN Return(c, ErrLobbyNotFound)
       ELSE IF ~CanStart(lobbies[id]) THEN Return(c, ErrCannotStartGame)
       ELSE /\ Goto(c, "start_set")
            /\ arg' = [arg EXCEPT ![c] = [NoArg EXCEPT !.lobby = id]]
            /\ result' = [result EXCEPT ![c] = NoResult]
    /\ UNCHANGED <<hub, lobbies, repo, events, sleep, nextId, crashed>>

StartGameSet(c) ==
    /\ pc[c] = "start_set"
    /\ lobbies' = [lobbies EXCEPT ![arg[c].lobby] = LobbyStartGame(@)]
    /\ Goto(c, "start_save")
    /\ UNCHANGED <<hub, repo, events, arg, result, sleep, nextId, calls, crashed>>

StartGameSaveAborts(c) ==
    /\ pc[c] = "start_save"
    /\ SaveLobby(arg[c].lobby)
    /\ IF outage
       THEN Return(c, ErrCannotStartGame)
       ELSE Goto(c, "start_bcast") /\ UNCHANGED <<arg, result>>
    /\ UNCHANGED <<hub, lobbies, events, sleep, nextId, calls, crashed>>

StartGameSave(c) ==
    /\ pc[c] = "start_save"
    /\ SaveLobby(arg[c].lobby)
    /\ Goto(c, "start_bcast")
    /\ UNCHANGED <<hub, lobbies, events, arg, result, sleep, nextId, calls, crashed>>

StartGameBroadcast(c) ==
    /\ pc[c] = "start_bcast"
    /\ BroadcastLobbyUpdate(arg[c].lobby, "game_started", <<>>)
    /\ Goto(c, "snq_check")
    /\ UNCHANGED <<hub, lobbies, repo, arg, result, sleep, nextId, calls, crashed>>

StartGame(c, budget) ==
    \/ \E id \in RequestIds : StartGameCheck(c, id, budget)
    \/ StartGameSet(c)
    \/ StartGameSave(c)
    \/ StartGameBroadcast(c)

\* ---- GameService.SubmitAnswer -------------------------------------------
PlayerIndex(l, playerID) == CHOOSE i \in 1..Len(l.Players) : l.Players[i].ID = playerID

SubmitAnswerCheck(c, id, playerID, answer, responseTime, budget) ==
    /\ pc[c] = "idle"
    /\ calls < budget
    /\ calls' = calls + 1
    /\ IF id \notin hub
       THEN Return(c, ErrLobbyNotFound)
       ELSE IF ~IsQuestionActive(lobbies[id])
       THEN Return(c, ErrQuestionNotActive)
       ELSE IF ~HasPlayer(lobbies[id], playerID)
       THEN Return(c, ErrPlayerNotFound)
       ELSE /\ Goto(c, "sub_score")
            /\ arg' = [arg EXCEPT ![c] =
                         [NoArg EXCEPT !.lobby = id, !.player = playerID,
                                       !.answer = answer, !.rt = responseTime,
                                       !.streak = lobbies[id].Players[PlayerIndex(lobbies[id], playerID)].Streak]]
            /\ result' = [result EXCEPT ![c] = NoResult]
    /\ UNCHANGED <<hub, lobbies, repo, events, sleep, nextId, crashed>>

\* calculateScore(lobby.CurrentQ, ...), player.Score += score and the streak
\* update.  player is the pointer found by the check: when the player has left
\* in between, the writes go to an object no longer in lobby.Players.
SubmitAnswerScore(c) ==
    /\ pc[c] = "sub_score"
    /\ lobbies[arg[c].lobby].CurrentQ # Nil
    /\ LET l == lobbies[arg[c].lobby]
           q == Deref(l.CurrentQ)
           score == calculateScore(q, arg[c].answer, arg[c].rt)
       IN IF HasPlayer(l, arg[c].player)
          THEN LET i == PlayerIndex(l, arg[c].player)
                   streak == IF arg[c].answer = q.Correct THEN l.Players[i].Streak + 1 ELSE 0
               IN /\ lobbies' = [lobbies EXCEPT ![arg[c].lobby].Players[i] =
                                   [@ EXCEPT !.Score = @ + score, !.Streak = streak]]
                  /\ arg' = [arg EXCEPT ![c].score = score, ![c].streak = streak]
          ELSE /\ UNCHANGED lobbies
               /\ arg' = [arg EXCEPT ![c].score = score,
                                     ![c].streak = IF arg[c].answer = q.Correct
                                                   THEN arg[c].streak + 1 ELSE 0]
    /\ Goto(c, "sub_save")
    /\ UNCHANGED <<hub, repo, events, result, sleep, nextId, calls, crashed>>

\* question.Correct with question == nil: endQuestion cleared CurrentQ meanwhile
SubmitAnswerPanic(c) ==
    /\ pc[c] = "sub_score"
    /\ lobbies[arg[c].lobby].CurrentQ = Nil
    /\ PanicIn(c)
    /\ UNCHANGED <<hub, lobbies, repo, events, sleep, nextId, calls>>

SubmitAnswerSave(c) ==
    /\ pc[c] = "sub_save"
    /\ SaveLobby(arg[c].lobby)
    /\ Goto(c, "sub_bcast")
    /\ UNCHANGED <<hub, lobbies, events, arg, result, sleep, nextId, calls, crashed>>

SubmitAnswerBroadcast(c) ==
    /\ pc[c] = "sub_bcast"
    /\ LET l == lobbies[arg[c].lobby]
           streak == IF HasPlayer(l, arg[c].player)
                     THEN l.Players[PlayerIndex(l, arg[c].player)].Streak
                     ELSE arg[c].streak
       IN BroadcastLobbyUpdate(arg[c].lobby, "answer_received",
                               <<arg[c].player, arg[c].score, streak>>)
    /\ Return(c, Ok)
    /\ UNCHANGED <<hub, lobbies, repo, sleep, nextId, calls, crashed>>

SubmitAnswer(c, budget) ==
    \/ \E id \in RequestIds, pid \in 1..nextId, a \in Answers, rt \in ResponseTimes :
          SubmitAnswerCheck(c, id, pid, a, rt, budget)
    \/ SubmitAnswerScore(c)
    \/ SubmitAnswerPanic(c)
    \/ SubmitAnswerSave(c)
    \/ SubmitAnswerBroadcast(c)

\* ---- time ---------------------------------------------------------------
Elapse(v) == IF v > TickStep THEN v - TickStep ELSE 0

Tick ==
    /\ \/ \E t \in Timers : sleep[t] > 0
       \/ \E id \in DOMAIN lobbies :
            lobbies[id].QuestionEnd # Nil /\ Deref(lobbies[id].QuestionEnd) > 0
    /\ sleep' = [t \in Timers |-> Elapse(sleep[t])]
    /\ lobbies' = [id \in DOMAIN lobbies |->
                     IF lobbies[id].QuestionEnd = Nil THEN lobbies[id]
                     ELSE [lobbies[id] EXCEPT !.QuestionEnd = Ptr(Elapse(Deref(@)))]]
    /\ UNCHANGED <<hub, repo, events, pc, arg, result, nextId, calls, crashed>>

Next ==
    /\ ~crashed
    /\ UNCHANGED <<hubVars, outage>>
    /\ \/ \E id \in LobbyIds, m \in MinRounds..MaxRoundsLimit : CreateLobby(id, "quiz", m)
       \/ \E c \in Callers : JoinLobby(c, MaxCalls)
       \/ \E c \in Callers : LeaveLobby(c, MaxCalls)
       \/ \E c \in Callers : StartGame(c, MaxCalls)
       \/ \E c \in Callers : SubmitAnswer(c, MaxCalls)
       \/ \E th \in Threads : startNextQuestion(th)
       \/ \E th \in Threads : endGame(th)
       \/ \E t \in Timers : endQuestion(t)
       \/ Tick

Spec == Init /\ [][Next]_vars

\* the lobby directory alone: joins and leaves up to the capacity
NextLobby ==
    /\ ~crashed
    /\ UNCHANGED <<hubVars, outage>>
    /\ \/ \E id \in LobbyIds : CreateLobby(id, "quiz", MaxRoundsLimit)
       \/ \E c \in Callers : JoinLobby(c, MaxLobbyCalls)
       \/ \E c \in Callers : LeaveLobby(c, MaxLobbyCalls)

SpecLobby == Init /\ [][NextLobby]_vars

\* a game whose players leave while it runs: no answers, one more call
NextTeardown ==
    /\ ~crashed
    /\ UNCHANGED <<hubVars, outage>>
    /\ \/ \E id \in LobbyIds, m \in MinRounds..MaxRoundsLimit : CreateLobby(id, "quiz", m)
       \/ \E c \in Callers : JoinLobby(c, MaxTeardownCalls)
       \/ \E c \in Callers : LeaveLobby(c, MaxTeardownCalls)
       \/ \E c \in Callers : StartGame(c, MaxTeardownCalls)
       \/ \E th \in Threads : startNextQuestion(th)
       \/ \E th \in Threads : endGame(th)
       \/ \E t \in Timers : endQuestion(t)
       \/ Tick

SpecTeardown == Init /\ [][NextTeardown]_vars

\* ---- GameService.startCleanupTask ---------------------------------------
\* a finish time, one sweep period later; beyond the retention window plus one
\* period all ages look the same to the sweep
Older(finishedAt) ==
    IF finishedAt = Nil THEN Nil
    ELSE IF Deref(finishedAt) >= RetentionWindow + SweepPeriod THEN finishedAt
    ELSE Ptr(Deref(finishedAt) + SweepPeriod)

\* repository.DeleteFinishedGamesOlderThan: the rows that stay
DeleteFinishedGamesOlderThan(rows, duration) ==
    LET stays == {id \in DOMAIN rows :
                    ~ /\ rows[id].State = Finished
                      /\ rows[id].FinishedAt # Nil
                      /\ Deref(rows[id].FinishedAt) > duration}
    IN [id \in stays |-> rows[id]]

\* one turn of the loop: the ticker's period passes, then the repository
\* deletes the finished games older than the retention window
startCleanupTask ==
    /\ sleep' = [t \in Timers |-> 0]
    /\ lobbies' = [id \in DOMAIN lobbies |->
                     [lobbies[id] EXCEPT !.FinishedAt = Older(@),
                                         !.QuestionEnd = IF @ = Nil THEN Nil ELSE Ptr(0)]]
    /\ repo' = DeleteFinishedGamesOlderThan(
                  [id \in DOMAIN repo |-> [repo[id] EXCEPT !.FinishedAt = Older(@)]],
                  RetentionWindow)
    /\ UNCHANGED <<hub, events, pc, arg, result, nextId, calls, crashed>>

\* a game played to its end by players who never leave, and the sweep
NextSweep ==
    /\ ~crashed
    /\ UNCHANGED <<hubVars, outage>>
    /\ \/ \E id \in LobbyIds : CreateLobby(id, "quiz", MaxRoundsLimit - 1)
       \/ \E c \in Callers : JoinLobby(c, MaxSweepCalls)
       \/ \E c \in Callers : StartGame(c, MaxSweepCalls)
       \/ \E th \in Threads : startNextQuestion(th)
       \/ \E th \in Threads : endGame(th)
       \/ \E t \in Timers : endQuestion(t)
       \/ Tick
       \/ startCleanupTask

\* the ticker keeps firing and a runnable goroutine is eventually scheduled
SpecSweep ==
    /\ Init
    /\ [][NextSweep]_vars
    /\ WF_vars(startCleanupTask /\ UNCHANGED <<hubVars, outage>>)
    /\ \A th \in Threads :
          WF_vars(/\ startNextQuestion(th) \/ endGame(th) \/ (th \in Timers /\ endQuestion(th))
                  /\ UNCHANGED <<hubVars, outage>>)

\* ---- a running round ----------------------------------------------------
\* The state after CreateLobby, two JoinLobby and a StartGame by c1 whose
\* startNextQuestion has set question q, saved, broadcast new_question and
\* started the timer t1.
RunningLobby(q) ==
    SetQuestion(LobbyStartGame(AddPlayer(AddPlayer(NewLobby("L1", "quiz", MaxRoundsLimit),
                                                   1, "alice"), 2, "alice")),
                q, QuestionDuration)

RunningEvents(q) ==
    [last |-> Ptr(Event("new_question", <<q, 1>>)),
     count |-> [t \in EventTypes |->
                  IF t = "player_joined" THEN 2
                  ELSE IF t \in {"game_started", "new_question"} THEN 1 ELSE 0]]

\* calls counts the client calls made from this state on
InitRunning(q) ==
    /\ NewLobbyHub
    /\ hub = {"L1"}
    /\ lobbies = [id \in {"L1"} |-> RunningLobby(q)]
    /\ repo = [id \in {"L1"} |-> Snapshot(RunningLobby(q))]
    /\ events = [id \in {"L1"} |-> RunningEvents(q)]
    /\ sleep = [t \in Timers |-> IF t = "t1" THEN QuestionDuration ELSE 0]
    /\ result = [c \in Callers |-> Ok]
    /\ nextId = 2
    /\ calls = 0
    /\ crashed = FALSE
    /\ outage = FALSE

\* both clients are idle while the first question runs
InitAnswers ==
    \E q \in Questions :
        /\ InitRunning(q)
        /\ pc = [th \in Threads |-> IF th \in Callers THEN "idle"
                                    ELSE IF th = "t1" THEN "sleepQ" ELSE "unused"]
        /\ arg = [th \in Threads |-> IF th = "t1" THEN [NoArg EXCEPT !.lobby = "L1"]
                                     ELSE NoArg]

\* answers of two clients racing with each other and with the round timer
NextAnswers ==
    /\ ~crashed
    /\ UNCHANGED <<hubVars, outage>>
    /\ \/ \E c \in Callers : SubmitAnswer(c, MaxAnswerCalls)
       \/ \E t \in Timers : EndQuestionBroadcast(t) \/ EndQuestionClear(t) \/ EndQuestionSave(t)
       \/ \E t \in Timers : StartNextQuestionSet(t) \/ StartNextQuestionSave(t)
                                \/ StartNextQuestionBroadcast(t)
       \/ \E t \in Timers : endGame(t)
       \/ Tick

SpecAnswers == InitAnswers /\ [][NextAnswers]_vars

\* SubmitAnswer of c1 has passed its checks for player 1 with an answer and a
\* response time taken from the whole range a client can send
InitScore ==
    \E q \in Questions, a \in Answers, rt \in ScoreTimes :
        /\ InitRunning(q)
        /\ pc = [th \in Threads |-> IF th = "c1" THEN "sub_score"
                                    ELSE IF th = "c2" THEN "idle"
                                    ELSE IF th = "t1" THEN "sleepQ" ELSE "unused"]
        /\ arg = [th \in Threads |->
                    IF th = "t1" THEN [NoArg EXCEPT !.lobby = "L1"]
                    ELSE IF th = "c1"
                    THEN [NoArg EXCEPT !.lobby = "L1", !.player = 1,
                                       !.answer = a, !.rt = rt]
                    ELSE NoArg]

NextScore ==
    /\ ~crashed
    /\ UNCHANGED <<hubVars, outage>>
    /\ \E c \in Callers :
          SubmitAnswerScore(c) \/ SubmitAnswerSave(c) \/ SubmitAnswerBroadcast(c)

SpecScore == InitScore /\ [][NextScore]_vars

\* ---- the end of a game ---------------------------------------------------
\* The state after the last round: n players (n = 0: the last one has left and
\* LeaveLobby has removed the lobby from the Hub and the repository) with any
\* scores, NextRound has set Finished, and the timer t1 has slept its pause.
BoardLobby(n, score) ==
    [NewLobby("L1", "quiz", MaxRoundsLimit) EXCEPT
        !.Players = [i \in 1..n |-> [NewPlayer(i, "alice") EXCEPT !.Score = score[i]]],
        !.State = Finished,
        !.Round = MaxRoundsLimit + 1,
        !.StartedAt = Ptr(0)]

BoardEvents(n) ==
    [last |-> Ptr(Event("question_results", <<1, <<>>, MaxRoundsLimit>>)),
     count |-> [t \in EventTypes |->
                  IF t = "player_joined" THEN (IF n > 2 THEN n ELSE 2)
                  ELSE IF t = "player_left" THEN (IF n > 2 THEN 0 ELSE 2 - n)
                  ELSE IF t = "game_started" THEN 1
                  ELSE IF t \in {"new_question", "question_results"} THEN MaxRoundsLimit
                  ELSE 0]]

InitBoard ==
    \E n \in 0..MaxBoardPlayers :
      \E score \in [1..n -> BoardScores] :
        /\ NewLobbyHub
        /\ hub = IF n = 0 THEN {} ELSE {"L1"}
        /\ lobbies = [id \in {"L1"} |-> BoardLobby(n, score)]
        /\ repo = [id \in (IF n = 0 THEN {} ELSE {"L1"}) |-> Snapshot(BoardLobby(n, score))]
        /\ events = [id \in {"L1"} |-> BoardEvents(n)]
        /\ pc = [th \in Threads |-> IF th \in Callers THEN "idle"
                                    ELSE IF th = "t1" THEN "sleepP" ELSE "unused"]
        /\ arg = [th \in Threads |-> IF th = "t1" THEN [NoArg EXCEPT !.lobby = "L1"]
                                     ELSE NoArg]
        /\ result = [c \in Callers |-> Ok]
        /\ sleep = [t \in Timers |-> 0]
        /\ nextId = IF n > 2 THEN n ELSE 2
        /\ calls = 0
        /\ crashed = FALSE
        /\ outage = FALSE

NextBoard ==
    /\ ~crashed
    /\ UNCHANGED <<hubVars, outage>>
    /\ \E t \in Timers : StartNextQuestionSet(t) \/ endGame(t)

SpecBoard == InitBoard /\ [][NextBoard]_vars

\* ---- properties ---------------------------------------------------------

\* C1: no lobby ever holds more than Capacity (8) players, whatever the
\* interleaving of JoinLobby and LeaveLobby calls.
C1_PlayersWithinCapacity ==
    \A id \in DOMAIN lobbies : Len(lobbies[id].Players) <= Capacity

\* positions at which a goroutine has made its check (or read) and has not yet
\* applied the mutation that rests on it
BetweenCheckAndMutate == {"join_add", "start_set", "sub_score", "eq_clear", "eg_set"}

\* C2: mutations of one lobby are serialized: no two goroutines are at the same
\* time between the check and the mutation of an operation on the same lobby.
C2_MutationsSerialized ==
    \A id \in DOMAIN lobbies :
        Cardinality({th \in Threads :
                        arg[th].lobby = id /\ pc[th] \in BetweenCheckAndMutate}) <= 1

Removed(id) == id \in DOMAIN lobbies /\ id \notin hub /\ id \notin DOMAIN repo

TimerStep(t) == endQuestion(t) \/ startNextQuestion(t) \/ endGame(t)

\* C3: once the last player has left (the lobby is gone from the Hub and from
\* the repository), a step of a pending round timer changes no lobby field,
\* broadcasts nothing and writes nothing to the repository.
C3_TimerIsNoOpAfterTeardown ==
    [][\A t \in Timers :
          (Removed(arg[t].lobby) /\ TimerStep(t)) => UNCHANGED <<lobbies, events, repo>>]_vars

RoundsToPlay(l) == IF l.MaxRounds > 0 THEN l.MaxRounds ELSE 0

\* C4: a started game runs exactly MaxRounds question cycles (new_question, then
\* question_results), then is Finished and emits exactly one game_ended.
C4_ExactlyMaxRoundsCyclesThenOneGameEnded ==
    \A id \in DOMAIN lobbies :
        LET n == events[id].count
            l == lobbies[id]
        IN /\ n["game_ended"] <= 1
           /\ n["new_question"] <= RoundsToPlay(l)
           /\ n["question_results"] <= n["new_question"]
           /\ n["game_ended"] = 1 =>
                 /\ n["question_results"] = RoundsToPlay(l)
                 /\ l.State = Finished

DeadlineReached(l) == l.QuestionEnd # Nil /\ Deref(l.QuestionEnd) = 0

C6_ScoresOnlyAgainstCurrentQuestion ==
    \A c \in Callers :
        pc[c] = "sub_score" => lobbies[arg[c].lobby].CurrentQ # Nil

\* C7: a JoinLobby succeeds (adds its player) exactly when the lobby is Waiting
\* and holds fewer than Capacity players; the player count then grows by one and
\* the new player, with the given username and score 0, streak 0, comes last.
C7_JoinOnlyWhenWaitingAndNotFull ==
    [][\A c \in Callers :
          JoinLobbyAdd(c) =>
            LET l == lobbies[arg[c].lobby]
                m == lobbies'[arg[c].lobby]
            IN /\ l.State = Waiting
               /\ Len(l.Players) < Capacity
               /\ Len(m.Players) = Len(l.Players) + 1
               /\ SubSeq(m.Players, 1, Len(l.Players)) = l.Players
               /\ m.Players[Len(m.Players)].Username = arg[c].username
               /\ m.Players[Len(m.Players)].Score = 0
               /\ m.Players[Len(m.Players)].Streak = 0]_vars

\* C8: the player list never grows while the lobby is InProgress or Finished.
C8_NoJoinAfterStart ==
    [][\A id \in DOMAIN lobbies :
          Len(lobbies'[id].Players) > Len(lobbies[id].Players)
            => lobbies[id].State = Waiting]_vars

\* C9: a Waiting lobby has no current question and no question deadline.
C9_WaitingHasNoQuestion ==
    \A id \in DOMAIN lobbies :
        lobbies[id].State = Waiting =>
            lobbies[id].CurrentQ = Nil /\ lobbies[id].QuestionEnd = Nil

\* a StartGame has passed CanStart and is about to leave the Waiting state
C9_Witness ==
    \E c \in Callers :
        /\ pc[c] = "start_set"
        /\ lobbies[arg[c].lobby].State = Waiting
        /\ Len(lobbies[arg[c].lobby].Players) >= 2
        /\ lobbies[arg[c].lobby].CurrentQ = Nil

\* C10: an InProgress lobby has 1 <= Round <= MaxRounds, for every maxRounds
\* CreateLobby accepts.
C10_RoundWithinMaxRounds ==
    \A id \in DOMAIN lobbies :
        lobbies[id].State = InProgress =>
            1 <= lobbies[id].Round /\ lobbies[id].Round <= lobbies[id].MaxRounds

SamePlayerUnchanged(l, m) ==
    \A i \in 1..Len(l.Players), j \in 1..Len(m.Players) :
        l.Players[i].ID = m.Players[j].ID =>
            /\ m.Players[j].Score = l.Players[i].Score
            /\ m.Players[j].Streak = l.Players[i].Streak

\* C11: once a lobby is Finished, no later step (of JoinLobby, StartGame,
\* SubmitAnswer or a pending question-cycle step) changes a player's score or
\* streak or the round counter.
C11_FinishedFreezesScoresAndRound ==
    [][\A id \in DOMAIN lobbies :
          lobbies[id].State = Finished =>
            /\ lobbies'[id].Round = lobbies[id].Round
            /\ SamePlayerUnchanged(lobbies[id], lobbies'[id])]_vars

\* C12: the state of a lobby only moves Waiting -> InProgress, by StartGame, and
\* InProgress -> Finished, by the question cycle; it never moves back or out of
\* Finished, and JoinLobby, LeaveLobby and SubmitAnswer never change it.
C12_StateOnlyMovesForward ==
    [][\A id \in DOMAIN lobbies :
          lobbies'[id].State # lobbies[id].State =>
            \/ /\ lobbies[id].State = Waiting
               /\ lobbies'[id].State = InProgress
               /\ \E c \in Callers : StartGameSet(c)
            \/ /\ lobbies[id].State = InProgress
               /\ lobbies'[id].State = Finished
               /\ \E th \in Threads : EndQuestionClear(th) \/ EndGameSet(th)]_vars

\* C13: StartGame succeeds exactly when the lobby is Waiting with at least 2
\* players; it then sets InProgress, round 1 and the start time and broadcasts
\* game_started before the first new_question; otherwise it returns
\* ErrLobbyNotFound / ErrCannotStartGame, changes nothing and starts no cycle.
C13_StartGameContract ==
    [][\A c \in Callers :
          /\ StartGameSet(c) =>
                /\ CanStart(lobbies[arg[c].lobby])
                /\ lobbies'[arg[c].lobby].State = InProgress
                /\ lobbies'[arg[c].lobby].Round = 1
                /\ lobbies'[arg[c].lobby].StartedAt # Nil
          /\ StartGameBroadcast(c) =>
                events[arg[c].lobby].count["new_question"] = 0
          /\ \A id \in RequestIds :
                StartGameCheck(c, id, MaxCalls) =>
                   IF id \in hub /\ CanStart(lobbies[id])
                   THEN pc'[c] = "start_set"
                   ELSE /\ pc'[c] = "idle"
                        /\ result'[c] = IF id \in hub THEN ErrCannotStartGame
                                                     ELSE ErrLobbyNotFound
                        /\ UNCHANGED <<hub, lobbies, repo, events, sleep>>
                        /\ \A t \in Timers : pc'[t] = pc[t]]_vars

Emitted(id, type) == events'[id].count[type] > events[id].count[type]

\* C14: the events of a lobby come in the order game_started, then per round
\* new_question followed by question_results before the next new_question,
\* then game_ended last; answer_received only comes between a round's
\* new_question and its question_results.
C14_EventOrder ==
    [][\A id \in DOMAIN events :
          LET n == events[id].count
          IN /\ Emitted(id, "game_started") =>
                   /\ n["game_started"] = 0
                   /\ n["new_question"] = 0
                   /\ n["game_ended"] = 0
             /\ Emitted(id, "new_question") =>
                   /\ n["game_started"] = 1
                   /\ n["question_results"] = n["new_question"]
                   /\ n["game_ended"] = 0
             /\ Emitted(id, "question_results") =>
                   /\ n["new_question"] = n["question_results"] + 1
                   /\ n["game_ended"] = 0
             /\ Emitted(id, "answer_received") =>
                   /\ n["new_question"] = n["question_results"] + 1
                   /\ n["game_ended"] = 0
             /\ Emitted(id, "game_ended") =>
                   /\ n["game_started"] = 1
                   /\ n["question_results"] = n["new_question"]
                   /\ n["game_ended"] = 0]_vars

\* C15: in every state that other operations or the repository can observe, a
\* Finished lobby has its finish timestamp set.
C15_FinishedHasFinishTime ==
    /\ \A id \in DOMAIN lobbies :
          lobbies[id].State = Finished => lobbies[id].FinishedAt # Nil
    /\ \A id \in DOMAIN repo :
          repo[id].State = Finished => repo[id].FinishedAt # Nil

Errors == {ErrLobbyNotFound, ErrLobbyFull, ErrGameInProgress, ErrPlayerNotFound,
           ErrCannotStartGame, ErrQuestionNotActive}

\* the step in which caller c enters one of the four mutating operations on id
CallStep(c, id) ==
    \/ \E u \in Usernames : JoinLobbyCheck(c, id, u, MaxCalls)
    \/ \E pid \in 1..nextId : LeaveLobbyRemove(c, id, pid, MaxCalls)
    \/ StartGameCheck(c, id, MaxCalls)
    \/ \E pid \in 1..nextId, a \in Answers, rt \in ResponseTimes :
          SubmitAnswerCheck(c, id, pid, a, rt, MaxCalls)

\* C17: when JoinLobby, LeaveLobby, StartGame or SubmitAnswer returns one of the
\* six errors, the lobbies, the Hub and the repository are as before the call,
\* no event was broadcast and no timer was started; a call that names a lobby
\* id that is unknown or already removed returns ErrLobbyNotFound.
C17_ErrorsChangeNothing ==
    [][\A c \in Callers, id \in RequestIds :
          CallStep(c, id) =>
             /\ result'[c] \in Errors =>
                   /\ pc'[c] = "idle"
                   /\ UNCHANGED <<hub, lobbies, repo, events, sleep, nextId>>
                   /\ \A t \in Timers : pc'[t] = pc[t]
             /\ id \notin hub => result'[c] = ErrLobbyNotFound
             /\ result'[c] = ErrLobbyNotFound => id \notin hub]_vars

\* a call was refused on a lobby that exists, and a call on a lobby whose last
\* player has left was refused with ErrLobbyNotFound
C17_Witness ==
    \E c, d \in Callers :
        /\ result[c] \in Errors \ {ErrLobbyNotFound}
        /\ result[d] = ErrLobbyNotFound
        /\ \E id \in DOMAIN lobbies : id \notin hub

Correct(c) == arg[c].answer = Deref(lobbies[arg[c].lobby].CurrentQ).Correct

\* C18: the speed bonus of a correct answer lies in [0, MaxTimeBonus] (so the
\* score lies in [125, 175]) for every responseTime a caller can pass, negative
\* and very large ones included, and never increases as responseTime grows.
C18_SpeedBonusWithinBounds ==
    [][\A c \in Callers :
          (SubmitAnswerScore(c) /\ Correct(c)) =>
             LET q == Deref(lobbies[arg[c].lobby].CurrentQ)
                 bonus == arg'[c].score - BaseScore - AccuracyBonus
             IN /\ 0 <= bonus
                /\ bonus <= MaxTimeBonus
                /\ \A r \in ScoreTimes :
                      r <= arg[c].rt =>
                         calculateScore(q, arg[c].answer, r) >= arg'[c].score]_vars

C20_AnswerUpdatesItsPlayer ==
    [][\A c \in Callers :
          /\ SubmitAnswerScore(c) =>
                LET l == lobbies[arg[c].lobby]
                    m == lobbies'[arg[c].lobby]
                    s == calculateScore(Deref(l.CurrentQ), arg[c].answer, arg[c].rt)
                IN /\ HasPlayer(l, arg[c].player)
                   /\ Len(m.Players) = Len(l.Players)
                   /\ \A i \in 1..Len(l.Players) :
                         IF l.Players[i].ID # arg[c].player
                         THEN m.Players[i] = l.Players[i]
                         ELSE IF Correct(c)
                         THEN /\ m.Players[i].Score = l.Players[i].Score + s
                              /\ m.Players[i].Streak = l.Players[i].Streak + 1
                         ELSE /\ m.Players[i].Score = l.Players[i].Score
                              /\ m.Players[i].Streak = 0
          /\ SubmitAnswerBroadcast(c) =>
                /\ result'[c] = Ok
                /\ events'[arg[c].lobby].last =
                      Ptr(Event("answer_received",
                                <<arg[c].player, arg[c].score, arg[c].streak>>))]_vars

Expired(id) ==
    /\ id \in DOMAIN lobbies
    /\ lobbies[id].State = Finished
    /\ lobbies[id].FinishedAt # Nil
    /\ Deref(lobbies[id].FinishedAt) > RetentionWindow

\* C16: a lobby that has been Finished for longer than the retention window is
\* eventually deleted by the periodic sweep from the Hub and from the
\* repository, also when its players never leave.
C16_SweepRemovesFinishedLobby ==
    \A id \in LobbyIds :
        Expired(id) ~> (id \notin hub /\ id \notin DOMAIN repo)

Position(s, playerID) == CHOOSE i \in 1..Len(s) : s[i].ID = playerID

SameMembers(s, t) ==
    /\ Len(s) = Len(t)
    /\ {s[i] : i \in 1..Len(s)} = {t[i] : i \in 1..Len(t)}

\* the leaderboard carried by the event a step hands to the lobby hub
BroadcastData(id) == Deref(events'[id].last).Data

\* C21: calculateLeaderboard returns a permutation of the lobby's players in
\* descending order of score in which players with equal scores keep the order
\* of the join-ordered player list, for every combination of scores.
C21_LeaderboardStableDescending ==
    [][\A th \in Threads :
          EndGameBroadcast(th) =>
             LET players == lobbies[arg[th].lobby].Players
                 board == BroadcastData(arg[th].lobby)[1]
             IN /\ board = calculateLeaderboard(lobbies[arg[th].lobby])
                /\ SameMembers(players, board)
                /\ \A i, j \in 1..Len(board) :
                      i < j =>
                         /\ board[i].Score >= board[j].Score
                         /\ board[i].Score = board[j].Score =>
                               Position(players, board[i].ID) < Position(players, board[j].ID)]_vars

\* game_ended was broadcast for four players of whom the second and the fourth
\* joiner share the highest score and the first and the third the lowest
C21_Witness ==
    \E id \in DOMAIN lobbies :
        /\ events[id].count["game_ended"] = 1
        /\ Len(lobbies[id].Players) = 4
        /\ lobbies[id].Players[1].Score = 0
        /\ lobbies[id].Players[2].Score = 175
        /\ lobbies[id].Players[3].Score = 0
        /\ lobbies[id].Players[4].Score = 175

\* C22: game_ended's final leaderboard holds exactly the players still in the
\* lobby; its winner is the first entry, a player with the highest score and
\* among those the earliest joiner; with no player left the winner is null and
\* the step completes.
C22_WinnerIsFirstOfLeaderboard ==
    [][\A th \in Threads :
          EndGameBroadcast(th) =>
             LET players == lobbies[arg[th].lobby].Players
                 board == BroadcastData(arg[th].lobby)[1]
                 winner == BroadcastData(arg[th].lobby)[2]
             IN /\ Deref(events'[arg[th].lobby].last).Type = "game_ended"
                /\ SameMembers(players, board)
                /\ pc'[th] = "eg_save"
                /\ ~crashed'
                /\ IF Len(players) = 0
                   THEN winner = Nil
                   ELSE /\ winner = Ptr(board[1])
                        /\ \A i \in 1..Len(players) :
                              /\ players[i].Score <= Deref(winner).Score
                              /\ players[i].Score = Deref(winner).Score =>
                                    Position(players, Deref(winner).ID) <= i]_vars

\* game_ended was broadcast for a lobby whose players have all left
C22_Witness ==
    \E id \in DOMAIN lobbies :
        /\ events[id].count["game_ended"] = 1
        /\ Len(lobbies[id].Players) = 0
        /\ Deref(events[id].last).Data = <<<<>>, Nil>>

\* C23: LeaveLobby for a player present in the lobby succeeds in each of the
\* states Waiting, InProgress and Finished: it removes exactly that player and
\* keeps the others with their order, scores and streaks, broadcasts
\* player_left, and when the list is empty removes the lobby from the Hub and
\* deletes it from the repository; otherwise both remain.
C23_LeaveRemovesExactlyThatPlayer ==
    [][\A c \in Callers :
          /\ \A id \in RequestIds, pid \in 1..nextId :
                (/\ LeaveLobbyRemove(c, id, pid, MaxTeardownCalls)
                 /\ id \in hub
                 /\ HasPlayer(lobbies[id], pid)) =>
                   /\ pc'[c] = "leave_save"
                   /\ lobbies'[id] =
                         [lobbies[id] EXCEPT
                             !.Players = SelectSeq(@, LAMBDA p : p.ID # pid)]
                   /\ Len(lobbies'[id].Players) = Len(lobbies[id].Players) - 1
                   /\ UNCHANGED <<hub, repo>>
          /\ LeaveLobbyBroadcast(c) =>
                Deref(events'[arg[c].lobby].last) = Event("player_left", <<arg[c].player>>)
          /\ LeaveLobbyTail(c) =>
                IF Len(lobbies[arg[c].lobby].Players) = 0
                THEN hub' = hub \ {arg[c].lobby} /\ pc'[c] = "leave_delete"
                ELSE UNCHANGED <<hub, repo>> /\ result'[c] = Ok
          /\ LeaveLobbyDelete(c) =>
                /\ arg[c].lobby \notin hub'
                /\ arg[c].lobby \notin DOMAIN repo'
                /\ result'[c] = Ok]_vars

\* both players of a Finished lobby have left: the lobby is gone from the Hub
\* and from the repository and both calls have returned
C23_Witness ==
    \E id \in DOMAIN lobbies :
        /\ lobbies[id].State = Finished
        /\ lobbies[id].Players = <<>>
        /\ events[id].count["player_left"] = 2
        /\ events[id].count["game_ended"] = 1
        /\ id \notin hub
        /\ id \notin DOMAIN repo
        /\ \A c \in Callers : pc[c] = "idle" /\ result[c] = Ok

\* ==== LobbyHub (hub.go) ======================================================
\* capacity of a connection's Send channel in the model (make(chan []byte, 256))
QueueCap == 1

\* bound on the number of Register, Unregister and Broadcast calls
MaxHubCalls == 5

\* the connection is the one lh.clients holds under its id
Registered(k) == ConnId(k) \in DOMAIN clients /\ clients[ConnId(k)] = k

\* the payloads whose Broadcast call has returned
Returned == (1..issued) \ {harg[h].msg : h \in {g \in HubCallers : hpc[g] = "bc_send"}}

\* a panic in run or in the goroutine of a caller ends the process
HubPanic ==
    /\ crashed' = TRUE
    /\ UNCHANGED <<hub, lobbies, repo, events, pc, arg, result, sleep, nextId, calls>>
    /\ UNCHANGED hubVars

\* ---- LobbyHub.Register: one critical section under lh.mu ----------------------
\* close of an already closed channel panics; the handoff on lh.register is
\* non-blocking and run only logs it
Register(k) ==
    LET id == ConnId(k)
        replaces == id \in DOMAIN clients /\ clients[id] # k
    IN  /\ hcalls < MaxHubCalls
        /\ IF replaces /\ closed[clients[id]]
           THEN HubPanic
           ELSE /\ hcalls' = hcalls + 1
                /\ closed' = IF replaces THEN [closed EXCEPT ![clients[id]] = TRUE]
                                         ELSE closed
                /\ clients' = [i \in DOMAIN clients \cup {id} |->
                                  IF i = id THEN k ELSE clients[i]]
                /\ regAt' = [regAt EXCEPT ![k] = run.pc]
                /\ UNCHANGED <<Send, delivered, run, hpc, harg, issued, before>>
                /\ UNCHANGED svcVars

\* ---- LobbyHub.Unregister: blocks on the unbuffered channel lh.unregister ------
Unregister(h, k) ==
    /\ hpc[h] = "idle"
    /\ hcalls < MaxHubCalls
    /\ hcalls' = hcalls + 1
    /\ hpc' = [hpc EXCEPT ![h] = "un_send"]
    /\ harg' = [harg EXCEPT ![h] = [conn |-> k, msg |-> 0]]
    /\ UNCHANGED <<clients, Send, closed, delivered, run, issued, before, regAt>>
    /\ UNCHANGED svcVars

\* ---- LobbyHub.Broadcast: blocks on the unbuffered channel lh.broadcast --------
Broadcast(h) ==
    /\ hpc[h] = "idle"
    /\ hcalls < MaxHubCalls
    /\ hcalls' = hcalls + 1
    /\ issued' = issued + 1
    /\ before' = [p \in 1..(issued + 1) |-> IF p = issued + 1 THEN Returned ELSE before[p]]
    /\ hpc' = [hpc EXCEPT ![h] = "bc_send"]
    /\ harg' = [harg EXCEPT ![h] = [conn |-> "", msg |-> issued + 1]]
    /\ UNCHANGED <<clients, Send, closed, delivered, run, regAt>>
    /\ UNCHANGED svcVars

\* ---- LobbyHub.run -------------------------------------------------------------
\* case client := <-lh.unregister: the caller's send returns
RunRecvUnregister(h) ==
    /\ run.pc = "select"
    /\ hpc[h] = "un_send"
    /\ run' = [run EXCEPT !.pc = "unregister", !.conn = harg[h].conn]
    /\ hpc' = [hpc EXCEPT ![h] = "idle"]
    /\ harg' = [harg EXCEPT ![h] = NoHubArg]
    /\ UNCHANGED <<clients, Send, closed, delivered, issued, before, regAt, hcalls>>
    /\ UNCHANGED svcVars

\* the unregister case under lh.mu: the entry is looked up and deleted by the
\* connection's id, and the channel closed is the one of the connection passed
RunUnregister ==
    /\ run.pc = "unregister"
    /\ IF ConnId(run.conn) \in DOMAIN clients
       THEN IF closed[run.conn]
            THEN HubPanic
            ELSE /\ clients' = [i \in DOMAIN clients \ {ConnId(run.conn)} |-> clients[i]]
                 /\ closed' = [closed EXCEPT ![run.conn] = TRUE]
                 /\ run' = RunIdle
                 /\ UNCHANGED <<Send, delivered, hpc, harg, issued, before, regAt, hcalls>>
                 /\ UNCHANGED svcVars
       ELSE /\ run' = RunIdle
            /\ UNCHANGED <<clients, closed, Send, delivered, hpc, harg, issued, before,
                           regAt, hcalls>>
            /\ UNCHANGED svcVars

\* case message := <-lh.broadcast: the caller's send returns
RunRecvBroadcast(h) ==
    /\ run.pc = "select"
    /\ hpc[h] = "bc_send"
    /\ run' = [run EXCEPT !.pc = "broadcast", !.msg = harg[h].msg]
    /\ hpc' = [hpc EXCEPT ![h] = "idle"]
    /\ harg' = [harg EXCEPT ![h] = NoHubArg]
    /\ UNCHANGED <<clients, Send, closed, delivered, issued, before, regAt, hcalls>>
    /\ UNCHANGED svcVars

\* the loop over lh.clients under lh.mu.RLock: a non-blocking send per
\* connection; a send on a closed channel panics, a full channel marks the id
RunBroadcastFront ==
    LET regs == {clients[id] : id \in DOMAIN clients}
        room == {k \in regs : Len(Send[k]) < QueueCap}
    IN  /\ run.pc = "broadcast"
        /\ IF \E k \in regs : closed[k]
           THEN HubPanic
           ELSE /\ Send' = [k \in Conns |-> IF k \in room THEN <<run.msg>> \o Send[k]
                                                          ELSE Send[k]]
                /\ delivered' = [k \in Conns |-> IF k \in room
                                                 THEN <<run.msg>> \o delivered[k]
                                                 ELSE delivered[k]]
                /\ run' = IF regs = room
                          THEN RunIdle
                          ELSE [run EXCEPT !.pc = "evict",
                                           !.remove = {ConnId(k) : k \in regs \ room},
                                           !.full = regs \ room]
                /\ UNCHANGED <<clients, closed, hpc, harg, issued, before, regAt, hcalls>>
                /\ UNCHANGED svcVars

RunBroadcast ==
    LET regs == {clients[id] : id \in DOMAIN clients}
        room == {k \in regs : Len(Send[k]) < QueueCap}
    IN  /\ run.pc = "broadcast"
        /\ IF \E k \in regs : closed[k]
           THEN HubPanic
           ELSE /\ Send' = [k \in Conns |-> IF k \in room THEN Append(Send[k], run.msg)
                                                          ELSE Send[k]]
                /\ delivered' = [k \in Conns |-> IF k \in room
                                                 THEN Append(delivered[k], run.msg)
                                                 ELSE delivered[k]]
                /\ run' = IF regs = room
                          THEN RunIdle
                          ELSE [run EXCEPT !.pc = "evict",
                                           !.remove = {ConnId(k) : k \in regs \ room},
                                           !.full = regs \ room]
                /\ UNCHANGED <<clients, closed, hpc, harg, issued, before, regAt, hcalls>>
                /\ UNCHANGED svcVars

\* the removal of clientsToRemove under lh.mu.Lock, taken after RUnlock: every
\* marked id still in lh.clients loses whatever connection it maps to by then
RunEvict ==
    LET gone == run.remove \cap DOMAIN clients
    IN  /\ run.pc = "evict"
        /\ IF \E id \in gone : closed[clients[id]]
           THEN HubPanic
           ELSE /\ closed' = [k \in Conns |-> closed[k] \/ \E id \in gone : clients[id] = k]
                /\ clients' = [i \in DOMAIN clients \ gone |-> clients[i]]
                /\ run' = RunIdle
                /\ UNCHANGED <<Send, delivered, hpc, harg, issued, before, regAt, hcalls>>
                /\ UNCHANGED svcVars

RunStep ==
    \/ \E h \in HubCallers : RunRecvUnregister(h) \/ RunRecvBroadcast(h)
    \/ RunUnregister
    \/ RunBroadcast
    \/ RunEvict

\* handleClientWrites: the connection's writer takes the next payload
ClientWrite(k) ==
    /\ Send[k] # <<>>
    /\ Send' = [Send EXCEPT ![k] = Tail(@)]
    /\ UNCHANGED <<clients, closed, delivered, run, hpc, harg, issued, before, regAt, hcalls>>
    /\ UNCHANGED svcVars

\* Hub.RemoveLobbyHub: the entry leaves Hub.lobbies; run keeps going
RemoveLobbyHub(id) ==
    /\ id \in hub
    /\ hub' = hub \ {id}
    /\ UNCHANGED <<lobbies, repo, events, pc, arg, result, sleep, nextId, calls, crashed>>
    /\ UNCHANGED hubVars

\* the lobby L1 right after GameService.CreateLobby
InitHub ==
    /\ NewLobbyHub
    /\ hub = {"L1"}
    /\ lobbies = [id \in {"L1"} |-> NewLobby(id, "quiz", MaxRoundsLimit)]
    /\ repo = [id \in {"L1"} |-> Snapshot(NewLobby(id, "quiz", MaxRoundsLimit))]
    /\ events = [id \in {"L1"} |-> NoEvents]
    /\ pc = [th \in Threads |-> IF th \in Callers THEN "idle" ELSE "unused"]
    /\ arg = [th \in Threads |-> NoArg]
    /\ result = [c \in Callers |-> NoResult]
    /\ sleep = [t \in Timers |-> 0]
    /\ nextId = 0
    /\ calls = 0
    /\ crashed = FALSE
    /\ outage = FALSE

NextHub ==
    /\ ~crashed
    /\ UNCHANGED outage
    /\ \/ \E k \in Conns : Register(k)
       \/ \E h \in HubCallers, k \in Conns : Unregister(h, k)
       \/ \E h \in HubCallers : Broadcast(h)
       \/ RunStep
       \/ \E k \in Conns : ClientWrite(k)
       \/ \E id \in LobbyIds : RemoveLobbyHub(id)

\* run is a goroutine of its own and is scheduled whenever it can take a step
SpecHub == InitHub /\ [][NextHub]_vars /\ WF_vars(~crashed /\ RunStep /\ UNCHANGED outage)

\* the connections lh.clients holds
RegisteredConns == {clients[id] : id \in DOMAIN clients}

\* C24: when the connections registered to the lobby (one per id) all have room
\* in their outbound queue, the Broadcast that run processes places its payload
\* once in the queue of each of them and evicts no connection.
C24_BroadcastReachesEveryConnection ==
    [][(/\ RunBroadcast
        /\ clients # <<>>
        /\ \A k \in RegisteredConns : Len(Send[k]) < QueueCap) =>
          /\ ~crashed'
          /\ clients' = clients
          /\ closed' = closed
          /\ run'.pc = "select"
          /\ \A k \in RegisteredConns :
                /\ Send'[k] = Append(Send[k], run.msg)
                /\ Cardinality({i \in 1..Len(delivered'[k]) : delivered'[k][i] = run.msg}) = 1]_vars

\* the registered connections whose Send channel is full
FullConns == {k \in RegisteredConns : Len(Send[k]) >= QueueCap}

\* C25: when run processes a Broadcast while a registered connection's queue is
\* full, every other registered connection with room still gets the payload;
\* the full connection is then removed from the registry and its queue closed,
\* and a connection that is not registered gets no payload.
C25_FullQueueIsEvicted ==
    [][/\ (RunBroadcast /\ FullConns # {}) =>
             /\ ~crashed'
             /\ run'.pc = "evict"
             /\ \A k \in RegisteredConns \ FullConns : Send'[k] = Append(Send[k], run.msg)
             /\ \A k \in FullConns : Send'[k] = Send[k]
       /\ RunEvict =>
             \A k \in run.full : closed'[k] /\ ~Registered(k)'
       /\ \A k \in Conns : ~Registered(k) => delivered'[k] = delivered[k]]_vars

\* C26: every call that waits for run (a Broadcast or an Unregister) eventually
\* returns, whatever the state of the connections' queues and whether or not
\* the lobby is still in the Hub.
C26_BroadcastEventuallyReturns ==
    \A h \in HubCallers : (hpc[h] # "idle") ~> (hpc[h] = "idle")

RegisteredInFlight == {k \in RegisteredConns : regAt[k] \in {"broadcast", "evict"}}

\* C28: a connection whose Register returned while a Broadcast was being
\* processed gets the payload of every Broadcast processed from then on, as long
\* as it is registered and its queue has room; only the payload in flight when
\* it registered can be missed.
C28_RegisterDuringBroadcast ==
    [][RunBroadcast =>
          \A k \in RegisteredInFlight :
              Len(Send[k]) < QueueCap =>
                 /\ ~crashed'
                 /\ delivered'[k] = Append(delivered[k], run.msg)
                 /\ Send'[k] = Append(Send[k], run.msg)]_vars

\* C29: Register(k) while a different connection is registered under the same
\* id closes that connection's queue and replaces it: afterwards the id maps to
\* k, k's queue is open and the number of registered connections is unchanged.
C29_RegisterReplacesSameId ==
    [][\A k \in Conns :
          (/\ Register(k)
           /\ ConnId(k) \in DOMAIN clients
           /\ clients[ConnId(k)] # k) =>
              /\ ~crashed'
              /\ closed'[clients[ConnId(k)]]
              /\ clients'[ConnId(k)] = k
              /\ RegisteredConns' = (RegisteredConns \ {clients[ConnId(k)]}) \cup {k}
              /\ Cardinality(DOMAIN clients') = Cardinality(DOMAIN clients)
              /\ ~closed'[k]]_vars

\* C30: Unregister is idempotent: processed for a registered connection it
\* removes that connection and closes its queue; processed for a connection
\* that is not registered (unregistered before, never registered, evicted or
\* replaced) it leaves the set of connections alone and closes nothing.
C30_UnregisterIdempotent ==
    [][RunUnregister =>
          /\ ~crashed'
          /\ IF Registered(run.conn)
             THEN /\ RegisteredConns' = RegisteredConns \ {run.conn}
                  /\ closed' = [closed EXCEPT ![run.conn] = TRUE]
             ELSE /\ clients' = clients
                  /\ closed' = closed]_vars

\* C31: after RemoveLobbyHub the lobby is not found in the Hub any more, the
\* LobbyHub's loop eventually terminates, and every connection that was still
\* registered is removed with its queue closed.
C31_RemovedHubIsTornDown ==
    \A id \in LobbyIds :
        (id \notin hub) ~> (/\ id \notin hub
                            /\ run.pc = "returned"
                            /\ clients = <<>>
                            /\ \A k \in Conns : regAt[k] # "" => closed[k])

\* ---- PostgresRepository.SaveLobby, read by read ---------------------------------
\* SaveLobby takes no lock on the lobby: it marshals lobby.CurrentQ first and
\* reads the other fields when it executes its statements, so the goroutines
\* that mutate the lobby can run in between.
SubmitAnswerSaveMarshal(c) ==
    /\ pc[c] = "sub_save"
    /\ arg' = [arg EXCEPT ![c].question = lobbies[arg[c].lobby].CurrentQ]
    /\ Goto(c, "sub_exec")
    /\ UNCHANGED <<hub, lobbies, repo, events, result, sleep, nextId, calls, crashed>>

\* the upsert of the lobby row with the marshalled question, the players as
\* they are now, and the commit
SubmitAnswerSaveExec(c) ==
    /\ pc[c] = "sub_exec"
    /\ repo' = [x \in DOMAIN repo \cup {arg[c].lobby} |->
                  IF x = arg[c].lobby
                  THEN [Snapshot(lobbies[x]) EXCEPT !.CurrentQ = arg[c].question]
                  ELSE repo[x]]
    /\ Goto(c, "sub_bcast")
    /\ UNCHANGED <<hub, lobbies, events, arg, result, sleep, nextId, calls, crashed>>

\* answers racing with the round timer, with SaveLobby's reads as separate steps
NextSave ==
    /\ ~crashed
    /\ UNCHANGED <<hubVars, outage>>
    /\ \/ \E c \in Callers, id \in RequestIds, pid \in 1..nextId, a \in Answers,
             rt \in ResponseTimes : SubmitAnswerCheck(c, id, pid, a, rt, MaxAnswerCalls)
       \/ \E c \in Callers : SubmitAnswerScore(c) \/ SubmitAnswerPanic(c)
       \/ \E c \in Callers : SubmitAnswerSaveMarshal(c) \/ SubmitAnswerSaveExec(c)
       \/ \E c \in Callers : SubmitAnswerBroadcast(c)
       \/ \E t \in Timers : EndQuestionBroadcast(t) \/ EndQuestionClear(t) \/ EndQuestionSave(t)
       \/ \E t \in Timers : StartNextQuestionSet(t) \/ StartNextQuestionSave(t)
                                \/ StartNextQuestionBroadcast(t)
       \/ \E t \in Timers : endGame(t)
       \/ Tick

SpecSave == InitAnswers /\ [][NextSave]_vars

\* ---- lobbies created with every name and every number of rounds -----------------
LobbyNames == {"quiz", "trivia"}

NextCreate ==
    /\ ~crashed
    /\ UNCHANGED <<hubVars, outage>>
    /\ \/ \E id \in LobbyIds, name \in LobbyNames, m \in MinRounds..MaxRoundsLimit :
             CreateLobby(id, name, m)
       \/ \E c \in Callers : JoinLobby(c, MaxCalls)
       \/ \E c \in Callers : LeaveLobby(c, MaxCalls)

SpecCreate == Init /\ [][NextCreate]_vars

\* ---- the whole service under fair scheduling -------------------------------------
\* a goroutine that is inside a call or a question-cycle step takes its next step
Proceeds(th) ==
    /\ pc[th] \notin {"idle", "unused", "done"}
    /\ Next
    /\ pc'[th] # pc[th]

\* time passes
TimePasses == ~crashed /\ Tick /\ UNCHANGED <<hubVars, outage>>

\* every started goroutine is eventually scheduled and sleeps end
SpecGame ==
    /\ Init
    /\ [][Next]_vars
    /\ WF_vars(TimePasses)
    /\ \A th \in Threads : WF_vars(Proceeds(th))

\* ---- the repository becomes unavailable ------------------------------------------
RepositoryOutage ==
    /\ ~outage
    /\ outage' = TRUE
    /\ UNCHANGED svcVars
    /\ UNCHANGED hubVars

NextOutage == Next \/ (~crashed /\ RepositoryOutage)

SpecOutage == Init /\ [][NextOutage]_vars

\* no call is being served and every timer goroutine is asleep or has ended
Quiescent ==
    /\ \A c \in Callers : pc[c] = "idle"
    /\ \A t \in Timers : pc[t] \in {"unused", "sleepQ", "sleepP", "done"}

PlayerSet(players) ==
    {[ID |-> players[i].ID, Score |-> players[i].Score, Streak |-> players[i].Streak] :
        i \in 1..Len(players)}

\* the repository's record of the lobby agrees with the lobby in memory
Agrees(id) ==
    /\ id \in DOMAIN repo
    /\ repo[id].State = lobbies[id].State
    /\ repo[id].Round = lobbies[id].Round
    /\ repo[id].CurrentQ = lobbies[id].CurrentQ
    /\ PlayerSet(repo[id].Players) = PlayerSet(lobbies[id].Players)

\* C32: whenever no operation on a lobby is in progress, the repository's
\* record of the lobby agrees with the lobby in memory in state, round, current
\* question and the players with their scores and streaks.
C32_RepositoryAgreesWithMemory ==
    Quiescent => \A id \in hub : Agrees(id)

\* where an operation continues after its SaveLobby
AfterSave ==
    [join_save |-> "join_bcast", leave_save |-> "leave_bcast", start_save |-> "start_bcast",
     sub_save |-> "sub_bcast", snq_save |-> "snq_bcast", eq_save |-> "sleepP"]

\* C33: when SaveLobby fails inside JoinLobby, LeaveLobby, StartGame,
\* SubmitAnswer or a question-cycle step, the lobby in memory keeps its
\* mutation, the operation goes on to its broadcast (the timer to its pause),
\* the event is emitted and the caller gets success.
C33_SaveFailureDoesNotInterrupt ==
    [][\A th \in Threads :
          /\ (outage /\ pc[th] \in DOMAIN AfterSave /\ pc'[th] # pc[th]) =>
                /\ pc'[th] = AfterSave[pc[th]]
                /\ lobbies' = lobbies
                /\ repo' = repo
                /\ ~crashed'
          /\ (/\ outage
              /\ pc[th] \in {"join_bcast", "start_bcast", "sub_bcast", "leave_bcast", "snq_bcast"}
              /\ pc'[th] # pc[th]
              /\ ~crashed'
              /\ th \in Callers => result'[th] # Panic) =>
                /\ events'[arg[th].lobby].count # events[arg[th].lobby].count
                /\ pc[th] \in {"join_bcast", "sub_bcast"} => result'[th] = Ok
                /\ pc[th] = "snq_bcast" => pc'[TimerOf(th)] = "sleepQ" \/ pc'[th] = "sleepQ"]_vars

\* a whole game was played while no save succeeded: the record is still the one
\* CreateLobby wrote
C33_Witness ==
    /\ outage
    /\ \E id \in hub :
          /\ lobbies[id].State = Finished
          /\ events[id].count["game_ended"] = 1
          /\ events[id].count["question_results"] >= 1
          /\ repo[id].State = Waiting
          /\ repo[id].Players = <<>>
          /\ Len(lobbies[id].Players) = 2

C35_StartedGameEventuallyEnds ==
    \A id \in LobbyIds :
        (id \in DOMAIN lobbies /\ events[id].count["game_started"] >= 1)
           ~> (/\ id \in DOMAIN lobbies
               /\ lobbies[id].State = Finished
               /\ events[id].count["game_ended"] >= 1)

\* the goroutines that carry a question cycle of the lobby: a pending round
\* timer, or a goroutine inside startNextQuestion, endQuestion or endGame
InCycle(id) ==
    {th \in Threads :
        /\ pc[th] \in {"snq_check", "snq_save", "snq_bcast", "sleepQ", "eq_clear", "eq_save",
                       "sleepP", "eg_set", "eg_bcast", "eg_save"}
        /\ arg[th].lobby = id}

\* C36: at every moment at most one question cycle is active per lobby, also
\* when StartGame calls interleave; the round never exceeds MaxRounds + 1 and
\* endQuestion never runs while the lobby has no current question.
C36_OneQuestionCyclePerLobby ==
    \A id \in DOMAIN lobbies :
        /\ Cardinality(InCycle(id)) <= 1
        /\ lobbies[id].MaxRounds >= 0 => lobbies[id].Round <= lobbies[id].MaxRounds + 1
        /\ \A t \in Timers :
              (pc[t] = "sleepQ" /\ sleep[t] = 0 /\ arg[t].lobby = id)
                 => lobbies[id].CurrentQ # Nil

\* C37: for each player and each question at most one SubmitAnswer is scored.
\* From the start of the first question (all scores and streaks 0) until its
\* question_results no player has more than one answer's score (at most 175)
\* and no streak has grown by more than one.
C37_OneScoredAnswerPerQuestion ==
    \A id \in DOMAIN lobbies :
        events[id].count["question_results"] = 0 =>
            \A i \in 1..Len(lobbies[id].Players) :
                /\ lobbies[id].Players[i].Score <= BaseScore + MaxTimeBonus + AccuracyBonus
                /\ lobbies[id].Players[i].Streak <= 1

\* C38: over every interleaving of Register, Unregister and eviction no
\* connection's outbound queue is closed more than once: whenever a step
\* executes close(client.Send), that queue has not been closed before.
C38_NoQueueClosedTwice ==
    [][/\ \A k \in Conns :
             (/\ Register(k)
              /\ ConnId(k) \in DOMAIN clients
              /\ clients[ConnId(k)] # k) => ~closed[clients[ConnId(k)]]
       /\ (RunUnregister /\ ConnId(run.conn) \in DOMAIN clients) => ~closed[run.conn]
       /\ RunEvict => \A id \in run.remove \cap DOMAIN clients : ~closed[clients[id]]]_vars

\* C39: replacement is keyed by connection identity: when the id of an older
\* connection is held by a newer connection with an open queue, processing an
\* Unregister of the older one, or the eviction decided for the older one,
\* leaves the newer connection registered with its queue open.
C39_ReplacementKeyedByIdentity ==
    [][/\ \A id \in DOMAIN clients :
             (/\ RunUnregister
              /\ ConnId(run.conn) = id
              /\ regAt[run.conn] # ""
              /\ clients[id] # run.conn
              /\ ~closed[clients[id]]) =>
                 /\ ~crashed'
                 /\ id \in DOMAIN clients'
                 /\ clients'[id] = clients[id]
                 /\ ~closed'[clients[id]]
       /\ \A id \in run.remove \cap DOMAIN clients :
             (/\ RunEvict
              /\ clients[id] \notin run.full
              /\ ~closed[clients[id]]) =>
                 /\ ~crashed'
                 /\ id \in DOMAIN clients'
                 /\ clients'[id] = clients[id]
                 /\ ~closed'[clients[id]]]_vars

\* C40: in every reachable state every connection held in lh.clients has an
\* open outbound queue, so the broadcast loop never sends on a closed channel.
C40_RegisteredQueuesAreOpen ==
    \A k \in RegisteredConns : ~closed[k]
====
